---- MODULE Spec2Model ----
(***************************************************************************)
(* The /sessione roster of src/main.py: the SESSIONS registry, the three   *)
(* coroutines that read and write it (sessione_start,                      *)
(* sessione_join_leave_callback and the two job callbacks                  *)
(* sessione_close_join_phase, sessione_next_turn) and the job queue.       *)
(*                                                                         *)
(* Every coroutine is cut at its awaits: the statements between two awaits *)
(* run without interruption on the event loop and are one step here.  An   *)
(* await of the bot or of the database may raise; the coroutine is then    *)
(* abandoned where it stood.  Updates (the command and the callback        *)
(* queries) are handled one at a time, because main() builds the           *)
(* Application without concurrent updates; jobs of the job queue run as    *)
(* tasks of their own and interleave with the update being handled and     *)
(* with each other.                                                        *)
(***************************************************************************)
EXTENDS Integers, FiniteSets

\* ---------------------------------------------------------------- bounds
NumUsers == 4
MaxSessions == 2

Users == 1 .. NumUsers
Mids == 1 .. MaxSessions

\* ------------------------------------------------------ program constants
STAFF_CHAT_ID == 1
OtherChat == STAFF_CHAT_ID + 1
Chats == {STAFF_CHAT_ID, OtherChat}

\* PRIESTS_IDS comes from the environment; the last user is not a priest.
PRIESTS_IDS == Users \ {NumUsers}

Quorum == 3
TurnSize == 2

CallbackData == {"sess_join", "sess_leave", "turn_join", "turn_leave"}

VARIABLES
    SESSIONS,   \* the keys of the SESSIONS dict
    session,    \* the dict object each key is (or was) bound to
    nextId,     \* message_id the next chat.send_message returns
    joinJobs,   \* scheduled one-shot jobs session_join_<id>
    turnJobs,   \* scheduled repeating jobs session_turn_<id>
    closeRun,   \* position of the running sessione_close_join_phase, per id
    turnRun,    \* position of the running sessione_next_turn, per id
    upd,        \* the update being handled (or the last one handled)
    shown,      \* messages on which the turn_join/turn_leave keyboard was rendered
    lastJoin    \* per Joining session: operators whose latest event was a join

vars == <<SESSIONS, session, nextId, joinJobs, turnJobs, closeRun, turnRun,
          upd, shown, lastJoin>>

\* ------------------------------------------------------------ the objects
Blank == [priests |-> {}, in_turn |-> {}, waiting |-> {}, phase |-> "none"]

NewSession == [priests |-> {}, in_turn |-> {}, waiting |-> {}, phase |-> "join"]

NoUpdate == [kind |-> "none", pc |-> "ret_none", at |-> "-",
             user |-> 0, data |-> "-", mid |-> 0]

\* where a handler stands once it has returned or raised
Terminal == {"ret_none", "ret_denied", "ret_active", "ret_started",
             "ret_absent", "ret_join", "ret_lost", "ret_ok", "raised"}

is_priest(user) == user \in PRIESTS_IDS

\* the registry check left out
AnyActiveUnchecked == FALSE

\* the registry check remembering every session there ever was
AnyActiveEver == nextId > 1

\* the registry check looking at sessions in the enrollment window only
AnyActiveJoining == \E m \in SESSIONS : session[m].phase = "join"

\* any(SESSIONS.values()): every value is a dict of six keys, hence truthy.
AnyActive == \E m \in SESSIONS : TRUE

\* a lookup that never misses
FoundAlways(mid) == TRUE

\* a lookup that takes whatever session there is
FoundAny(mid) == SESSIONS # {}

\* session = SESSIONS.get(message_id); if not session: ...
Found(mid) == mid \in SESSIONS

\* Application.builder() without concurrent_updates: the next update is
\* taken only when the handler of the previous one has returned or raised.
UpdateIdle == upd.pc \in Terminal

\* A dict object lives as long as something refers to it: the registry, or
\* the local `session` of a callback that still reads it after an await.
Refers(u, m) == u.kind = "cb" /\ u.mid = m /\ u.pc \in {"ack", "ack2"}

Collect(keys, objs, u) ==
    [m \in Mids |-> IF m \in keys \/ Refers(u, m) THEN objs[m] ELSE Blank]

\* Past the statements that use them, the locals `user` and `query.data`
\* are dead: the record of the update keeps the message id only.
Dead(u) == [u EXCEPT !.user = 0, !.data = "-"]

Ret(u, pc) == [Dead(u) EXCEPT !.pc = pc, !.at = "-"]

Raised(u) == [Dead(u) EXCEPT !.pc = "raised", !.at = u.pc]

Init ==
    /\ SESSIONS = {}
    /\ session = [m \in Mids |-> Blank]
    /\ nextId = 1
    /\ joinJobs = {}
    /\ turnJobs = {}
    /\ closeRun = [m \in Mids |-> "idle"]
    /\ turnRun = [m \in Mids |-> "idle"]
    /\ upd = NoUpdate
    /\ shown = {}
    /\ lastJoin = [m \in Mids |-> {}]

\* ---------------------------------------------------------- sessione_start
\* lines 567-586: the guards and the registry check, up to the first await.
StartRequest(user, chat) ==
    /\ UpdateIdle
    /\ nextId <= MaxSessions
    /\ upd' = [NoUpdate EXCEPT
                 !.kind = "start",
                 !.pc = IF ~is_priest(user) \/ chat # STAFF_CHAT_ID
                          THEN "ret_denied"
                        ELSE IF AnyActive THEN "reply"
                        ELSE "send"]
    /\ UNCHANGED <<SESSIONS, session, nextId, joinJobs, turnJobs, closeRun,
                   turnRun, shown, lastJoin>>

\* lines 579-583: the refusal has been sent.
StartReply ==
    /\ upd.kind = "start" /\ upd.pc = "reply"
    /\ upd' = Ret(upd, "ret_active")
    /\ UNCHANGED <<SESSIONS, session, nextId, joinJobs, turnJobs, closeRun,
                   turnRun, shown, lastJoin>>

\* lines 586-619: upsert_priest and send_message have returned (nothing of
\* the registry is read between the two awaits); insert and schedule.
StartSend ==
    /\ upd.kind = "start" /\ upd.pc = "send"
    /\ SESSIONS' = SESSIONS \cup {nextId}
    /\ upd' = Ret(upd, "ret_started")
    /\ session' = Collect(SESSIONS', [session EXCEPT ![nextId] = NewSession], upd')
    /\ joinJobs' = joinJobs \cup {nextId}
    /\ nextId' = nextId + 1
    /\ UNCHANGED <<turnJobs, closeRun, turnRun, shown, lastJoin>>

\* an await of sessione_start raises.
StartRaise ==
    /\ upd.kind = "start" /\ upd.pc \in {"reply", "send"}
    /\ upd' = Raised(upd)
    /\ UNCHANGED <<SESSIONS, session, nextId, joinJobs, turnJobs, closeRun,
                   turnRun, shown, lastJoin>>

\* ------------------------------------------- sessione_join_leave_callback
\* line 709: a callback query on the anchor message arrives.  The
\* turn_* buttons exist only on a message that update_session_message has
\* rendered; the sess_* buttons exist from the first send on.
CallbackQuery(user, data, mid) ==
    /\ UpdateIdle
    /\ mid < nextId
    /\ data \in {"turn_join", "turn_leave"} => mid \in shown
    /\ upd' = [kind |-> "cb", pc |-> "answer", at |-> "-",
               user |-> user, data |-> data, mid |-> mid]
    /\ session' = Collect(SESSIONS, session, upd')
    /\ UNCHANGED <<SESSIONS, nextId, joinJobs, turnJobs, closeRun, turnRun,
                   shown, lastJoin>>

\* sess_leave that forgets to discard
SessJoinOnly(s, data, uid) ==
    IF data = "sess_join" THEN [s EXCEPT !.priests = @ \cup {uid}] ELSE s

\* lines 723-728: the enrollment buttons act on priests alone.
SessJoinLeave(s, data, uid) ==
    IF data = "sess_join" THEN [s EXCEPT !.priests = @ \cup {uid}]
    ELSE IF data = "sess_leave" THEN [s EXCEPT !.priests = @ \ {uid}]
    ELSE s

\* lines 757-761: turn_join.
TurnJoin(s, uid) ==
    [s EXCEPT !.priests = @ \cup {uid},
              !.waiting = IF uid \notin s.in_turn THEN @ \cup {uid} ELSE @]

\* a leave from waiting that keeps the operator enrolled
LeaveWaitingKeepsEnrolled(s, uid) ==
    IF uid \in s.waiting THEN [s EXCEPT !.waiting = @ \ {uid}] ELSE s

\* lines 771-773: the second test of turn_leave.
LeaveWaiting(s, uid) ==
    IF uid \in s.waiting
      THEN [s EXCEPT !.waiting = @ \ {uid}, !.priests = @ \ {uid}]
      ELSE s

\* a leave that takes no replacement from waiting
ReplaceNobody(s) == {s}

\* lines 768-770: waiting.pop() hands over an arbitrary member of waiting.
Replace(s) ==
    IF s.waiting # {}
      THEN {[s EXCEPT !.waiting = @ \ {w}, !.in_turn = @ \cup {w}] : w \in s.waiting}
      ELSE {s}

\* lines 764-773: turn_leave; one result per member pop() may return.
TurnLeave(s, uid) ==
    IF uid \in s.in_turn
      THEN {LeaveWaiting(t, uid) :
              t \in Replace([s EXCEPT !.in_turn = @ \ {uid}, !.priests = @ \ {uid}])}
      ELSE {LeaveWaiting(s, uid)}

\* the quorum test off by one
LostQuorumBelowTwo(s) == Cardinality(s.priests) < Quorum - 1

\* line 776: the quorum test of the callback.
LostQuorum(s) == Cardinality(s.priests) < Quorum

\* lines 776-785: tear down or render.
QuorumBranch(u, s) ==
    [u |-> [u EXCEPT !.pc = IF LostQuorum(s) THEN "final" ELSE "render"], s |-> s]

\* lines 756-785, up to the next await.
RunningBranch(u, s) ==
    IF u.data = "turn_join"
      THEN {[u |-> [u EXCEPT !.pc = "ack2"], s |-> TurnJoin(s, u.user)]}
    ELSE IF u.data = "turn_leave"
      THEN {[u |-> [u EXCEPT !.pc = "ack2"], s |-> t] : t \in TurnLeave(s, u.user)}
    ELSE {QuorumBranch(u, s)}

\* the quorum enforced in the enrollment window too
PhaseBranchQuorumAlways(u, s) == RunningBranch(u, s)

\* line 730: the phase decides between the enrollment view and the roster.
PhaseBranch(u, s) ==
    IF s.phase = "join"
      THEN {[u |-> [u EXCEPT !.pc = "render_join"], s |-> s]}
      ELSE RunningBranch(u, s)

\* lines 711-728 (and on to the next await for the turn_* buttons):
\* query.answer() and upsert_priest have returned (nothing of the registry
\* is read between the two awaits); look the session up, apply the button.
CbLookup ==
    /\ upd.kind = "cb" /\ upd.pc = "answer"
    /\ IF ~Found(upd.mid)
         THEN /\ upd' = Dead([upd EXCEPT !.pc = "notfound"])
              /\ UNCHANGED <<session, lastJoin>>
       ELSE IF upd.data \in {"sess_join", "sess_leave"}
         THEN /\ upd' = Dead([upd EXCEPT !.pc = "ack"])
              /\ session' = [session EXCEPT ![upd.mid] =
                                SessJoinLeave(@, upd.data, upd.user)]
              /\ lastJoin' =
                   IF session[upd.mid].phase = "join"
                     THEN [lastJoin EXCEPT ![upd.mid] =
                             IF upd.data = "sess_join" THEN @ \cup {upd.user}
                             ELSE @ \ {upd.user}]
                     ELSE lastJoin
         ELSE /\ \E o \in PhaseBranch(upd, session[upd.mid]) :
                    /\ upd' = Dead(o.u)
                    /\ session' = [session EXCEPT ![upd.mid] = o.s]
              /\ UNCHANGED lastJoin
    /\ UNCHANGED <<SESSIONS, nextId, joinJobs, turnJobs, closeRun, turnRun, shown>>

\* line 720: the alert for a session that is gone has been sent.
CbNotFound ==
    /\ upd.kind = "cb" /\ upd.pc = "notfound"
    /\ upd' = Ret(upd, "ret_absent")
    /\ UNCHANGED <<SESSIONS, session, nextId, joinJobs, turnJobs, closeRun,
                   turnRun, shown, lastJoin>>

\* lines 725/728 -> 730: the acknowledgement of sess_join/sess_leave has
\* returned; go on with the object the callback looked up.
CbAck ==
    /\ upd.kind = "cb" /\ upd.pc = "ack"
    /\ \E o \in PhaseBranch(upd, session[upd.mid]) :
          /\ upd' = o.u
          /\ session' = Collect(SESSIONS, [session EXCEPT ![upd.mid] = o.s], upd')
    /\ UNCHANGED <<SESSIONS, nextId, joinJobs, turnJobs, closeRun, turnRun,
                   shown, lastJoin>>

\* lines 733-755: the enrollment view has been rendered.
CbRenderJoin ==
    /\ upd.kind = "cb" /\ upd.pc = "render_join"
    /\ upd' = Ret(upd, "ret_join")
    /\ UNCHANGED <<SESSIONS, session, nextId, joinJobs, turnJobs, closeRun,
                   turnRun, shown, lastJoin>>

\* lines 762/774 -> 776: the acknowledgement of turn_join/turn_leave has
\* returned.
CbAck2 ==
    /\ upd.kind = "cb" /\ upd.pc = "ack2"
    /\ upd' = QuorumBranch(upd, session[upd.mid]).u
    /\ session' = Collect(SESSIONS, session, upd')
    /\ UNCHANGED <<SESSIONS, nextId, joinJobs, turnJobs, closeRun, turnRun,
                   shown, lastJoin>>

\* del SESSIONS[message_id]: a KeyError when the key is gone.
Delete(keys, mid) == keys \ {mid}

\* lines 777-783: the final notice has been rendered; remove the session.
CbFinal ==
    /\ upd.kind = "cb" /\ upd.pc = "final"
    /\ IF upd.mid \in SESSIONS
         THEN /\ SESSIONS' = Delete(SESSIONS, upd.mid)
              /\ upd' = Ret(upd, "ret_lost")
         ELSE /\ SESSIONS' = SESSIONS
              /\ upd' = [Raised(upd) EXCEPT !.at = "del"]
    /\ session' = Collect(SESSIONS', session, upd')
    /\ lastJoin' = [lastJoin EXCEPT ![upd.mid] = {}]
    /\ UNCHANGED <<nextId, joinJobs, turnJobs, closeRun, turnRun, shown>>

\* line 785: update_session_message has rendered the roster.
CbRender ==
    /\ upd.kind = "cb" /\ upd.pc = "render"
    /\ upd' = Ret(upd, "ret_ok")
    /\ shown' = shown \cup {upd.mid}
    /\ UNCHANGED <<SESSIONS, session, nextId, joinJobs, turnJobs, closeRun,
                   turnRun, lastJoin>>

\* an await of the callback raises.
CbRaise ==
    /\ upd.kind = "cb"
    /\ upd.pc \in {"answer", "notfound", "ack", "render_join",
                   "ack2", "final", "render"}
    /\ upd' = Raised(upd)
    /\ session' = Collect(SESSIONS, session, upd')
    /\ UNCHANGED <<SESSIONS, nextId, joinJobs, turnJobs, closeRun, turnRun,
                   shown, lastJoin>>

\* ----------------------------------------------- sessione_close_join_phase
\* random.shuffle then [:2] and [2:]: any TurnSize members may come first
\* (all of them when the list is shorter than the slice).
Pairs(S) ==
    {P \in SUBSET S :
        Cardinality(P) = IF Cardinality(S) < TurnSize THEN Cardinality(S) ELSE TurnSize}

\* the first roster with everybody left in waiting
OpenRosterAllWaiting(s, pick) ==
    [s EXCEPT !.in_turn = pick, !.waiting = s.priests, !.phase = "running"]

\* the first roster without the change of phase
OpenRosterKeepsPhase(s, pick) ==
    [s EXCEPT !.in_turn = pick, !.waiting = s.priests \ pick]

\* lines 647-656: the first roster.
OpenRoster(s, pick) ==
    [s EXCEPT !.in_turn = pick, !.waiting = s.priests \ pick, !.phase = "running"]

\* lines 622-656: the one-shot job fires and runs to its first await.
CloseFire(mid) ==
    /\ mid \in joinJobs
    /\ joinJobs' = joinJobs \ {mid}
    /\ IF ~Found(mid)
         THEN /\ closeRun' = closeRun
              /\ UNCHANGED <<session, lastJoin>>
       ELSE IF Cardinality(session[mid].priests) < Quorum
         THEN /\ closeRun' = [closeRun EXCEPT ![mid] = "final"]
              /\ UNCHANGED <<session, lastJoin>>
         ELSE /\ closeRun' = [closeRun EXCEPT ![mid] = "render"]
              /\ \E pick \in Pairs(session[mid].priests) :
                    session' = [session EXCEPT ![mid] = OpenRoster(@, pick)]
              /\ lastJoin' = [lastJoin EXCEPT ![mid] = {}]
    /\ UNCHANGED <<SESSIONS, nextId, turnJobs, turnRun, upd, shown>>

\* lines 639-645: the notice has been rendered; remove the session.
CloseFinal(mid) ==
    /\ closeRun[mid] = "final"
    /\ SESSIONS' = Delete(SESSIONS, mid)
    /\ closeRun' = [closeRun EXCEPT ![mid] = "idle"]
    /\ session' = Collect(SESSIONS', session, upd)
    /\ lastJoin' = [lastJoin EXCEPT ![mid] = {}]
    /\ UNCHANGED <<nextId, joinJobs, turnJobs, turnRun, upd, shown>>

\* lines 658-666: the roster has been rendered; start the repeating job.
CloseRender(mid) ==
    /\ closeRun[mid] = "render"
    /\ closeRun' = [closeRun EXCEPT ![mid] = "idle"]
    /\ turnJobs' = turnJobs \cup {mid}
    /\ shown' = shown \cup {mid}
    /\ UNCHANGED <<SESSIONS, session, nextId, joinJobs, turnRun, upd, lastJoin>>

\* an await of sessione_close_join_phase raises.
CloseRaise(mid) ==
    /\ closeRun[mid] \in {"final", "render"}
    /\ closeRun' = [closeRun EXCEPT ![mid] = "idle"]
    /\ UNCHANGED <<SESSIONS, session, nextId, joinJobs, turnJobs, turnRun, upd,
                   shown, lastJoin>>

\* ------------------------------------------------------ sessione_next_turn
\* the rotation drawing from everybody
CandidatesEverybody(s) == s.priests

\* the rotation without its fallback
CandidatesNoFallback(s) == s.priests \ s.in_turn

\* lines 822-825: whoever was not on duty, or everybody when they are too few.
Candidates(s) ==
    IF Cardinality(s.priests \ s.in_turn) < TurnSize
      THEN s.priests
      ELSE s.priests \ s.in_turn

\* a rotation that leaves waiting as it was
RotateKeepsWaiting(s, pick) == [s EXCEPT !.in_turn = pick]

\* lines 827-831: the new roster.
Rotate(s, pick) ==
    [s EXCEPT !.in_turn = pick, !.waiting = s.priests \ pick]

\* lines 788-831: the repeating job fires and runs to its first await.
TurnFire(mid) ==
    /\ mid \in turnJobs
    /\ turnRun[mid] = "idle"
    /\ IF ~Found(mid)
         THEN /\ turnRun' = turnRun
              /\ turnJobs' = turnJobs \ {mid}
              /\ UNCHANGED session
       ELSE IF Cardinality(session[mid].priests) < Quorum
         THEN /\ turnRun' = [turnRun EXCEPT ![mid] = "final"]
              /\ UNCHANGED <<turnJobs, session>>
         ELSE /\ turnRun' = [turnRun EXCEPT ![mid] = "render"]
              /\ \E pick \in Pairs(Candidates(session[mid])) :
                    session' = [session EXCEPT ![mid] = Rotate(@, pick)]
              /\ UNCHANGED turnJobs
    /\ UNCHANGED <<SESSIONS, nextId, joinJobs, closeRun, upd, shown, lastJoin>>

\* lines 799-815: the final notice has been rendered and delete_message
\* has returned or raised (the except clause passes either way; nothing of
\* the registry is read between the two awaits); remove the session and,
\* unless del raised KeyError, the job.
TurnFinal(mid) ==
    /\ turnRun[mid] = "final"
    /\ SESSIONS' = Delete(SESSIONS, mid)
    /\ turnJobs' = IF mid \in SESSIONS THEN turnJobs \ {mid} ELSE turnJobs
    /\ turnRun' = [turnRun EXCEPT ![mid] = "idle"]
    /\ session' = Collect(SESSIONS', session, upd)
    /\ UNCHANGED <<nextId, joinJobs, closeRun, upd, shown, lastJoin>>

\* line 833: update_session_message has rendered the roster.
TurnRender(mid) ==
    /\ turnRun[mid] = "render"
    /\ turnRun' = [turnRun EXCEPT ![mid] = "idle"]
    /\ shown' = shown \cup {mid}
    /\ UNCHANGED <<SESSIONS, session, nextId, joinJobs, turnJobs, closeRun, upd,
                   lastJoin>>

\* an await of sessione_next_turn raises outside the try.
TurnRaise(mid) ==
    /\ turnRun[mid] \in {"final", "render"}
    /\ turnRun' = [turnRun EXCEPT ![mid] = "idle"]
    /\ UNCHANGED <<SESSIONS, session, nextId, joinJobs, turnJobs, closeRun, upd,
                   shown, lastJoin>>

\* --------------------------------------------------------------- the system
Next ==
    \/ \E user \in Users, chat \in Chats : StartRequest(user, chat)
    \/ StartReply
    \/ StartSend
    \/ StartRaise
    \/ \E user \in Users, data \in CallbackData, mid \in Mids :
          CallbackQuery(user, data, mid)
    \/ CbLookup
    \/ CbNotFound
    \/ CbAck
    \/ CbRenderJoin
    \/ CbAck2
    \/ CbFinal
    \/ CbRender
    \/ CbRaise
    \/ \E mid \in Mids : CloseFire(mid)
    \/ \E mid \in Mids : CloseFinal(mid)
    \/ \E mid \in Mids : CloseRender(mid)
    \/ \E mid \in Mids : CloseRaise(mid)
    \/ \E mid \in Mids : TurnFire(mid)
    \/ \E mid \in Mids : TurnFinal(mid)
    \/ \E mid \in Mids : TurnRender(mid)
    \/ \E mid \in Mids : TurnRaise(mid)

Spec == Init /\ [][Next]_vars

\* ================================================================ claims
Running(m) == m \in SESSIONS /\ session[m].phase = "running"

Joining(m) == m \in SESSIONS /\ session[m].phase = "join"

\* the one-shot job of m fires in this step
TimerFires(m) == m \in joinJobs /\ m \notin joinJobs'

\* the update handler takes a step
UpdateSteps == upd' # upd

\* C1: in every reachable state the registry holds at most one session.
C1_AtMostOneSession == Cardinality(SESSIONS) <= 1

\* two sessions have been created, one after the other, and one is alive
C1_Witness == nextId = MaxSessions + 1 /\ Cardinality(SESSIONS) = 1

\* C2 (as claimed): in a Running session enrolled is the disjoint union of
\* onDuty and waiting.
C2_Partition ==
    \A m \in Mids :
        Running(m) =>
            /\ session[m].priests = session[m].in_turn \cup session[m].waiting
            /\ session[m].in_turn \cap session[m].waiting = {}

\* C3 (as claimed): a Running session with at least 3 enrolled has exactly
\* 2 operators on duty.
C3_TwoOnDuty ==
    \A m \in Mids :
        Running(m) /\ Cardinality(session[m].priests) >= Quorum
            => Cardinality(session[m].in_turn) = TurnSize

C5_StartRejected ==
    [][/\ (UpdateIdle /\ upd'.kind = "start" /\ UpdateSteps /\ SESSIONS # {})
          => /\ upd'.pc \in {"reply", "ret_denied"}
             /\ UNCHANGED <<SESSIONS, session, joinJobs, turnJobs, nextId>>
       /\ (upd.kind = "start" /\ upd.pc = "reply" /\ UpdateSteps)
          => /\ upd'.pc \in {"ret_active", "raised"}
             /\ UNCHANGED <<SESSIONS, session, joinJobs, turnJobs, nextId>>]_vars

\* a start request has been refused while a Running session exists
C5_Witness ==
    /\ upd.kind = "start" /\ upd.pc = "ret_active"
    /\ \E m \in Mids : Running(m)

\* C6: while a session is Joining, enrolled is the set of operators whose
\* most recent join/leave event was a join.
C6_EnrolledIsLastJoin ==
    \A m \in Mids : Joining(m) => session[m].priests = lastJoin[m]

\* a Joining session with some operators in and some out, after a callback
C6_Witness ==
    \E m \in Mids :
        /\ Joining(m)
        /\ session[m].priests # {} /\ session[m].priests # Users
        /\ upd.kind = "cb" /\ upd.pc = "ret_join" /\ upd.mid = m

\* C7 (as claimed): once the enrollment timer has fired on fewer than 3
\* enrolled, no rotation timer is started for the anchor and, when the
\* handling of the timer ends, the session is out of the registry.
C7_NoQuorumRemoves ==
    [][\A m \in Mids :
          /\ closeRun[m] = "final" => m \notin turnJobs'
          /\ (closeRun[m] = "final" /\ closeRun'[m] = "idle") => m \notin SESSIONS']_vars

\* C8: when the enrollment timer fires on at least 3 enrolled, right after
\* the step the session is Running, 2 are on duty, they are enrolled, and
\* waiting is the rest of enrolled.
C8_FirstRoster ==
    [][\A m \in Mids :
          (TimerFires(m) /\ m \in SESSIONS
             /\ Cardinality(session[m].priests) >= Quorum)
          => /\ session'[m].phase = "running"
             /\ Cardinality(session'[m].in_turn) = TurnSize
             /\ session'[m].in_turn \subseteq session'[m].priests
             /\ session'[m].waiting = session'[m].priests \ session'[m].in_turn]_vars

\* the timer has just opened a roster
C8_Witness ==
    \E m \in Mids :
        /\ Running(m) /\ closeRun[m] = "render"
        /\ Cardinality(session[m].in_turn) = TurnSize
        /\ session[m].waiting # {}

\* C9 (as claimed): turn_leave by an on-duty operator of a Running session
\* with somebody waiting leaves 2 on duty, unless it leaves fewer than 3
\* enrolled (the case in which the session is to be removed).
C9_LeaveReplaces ==
    [][(upd.kind = "cb" /\ upd.pc = "answer" /\ upd.data = "turn_leave"
          /\ upd'.pc = "ack2" /\ Running(upd.mid)
          /\ upd.user \in session[upd.mid].in_turn
          /\ session[upd.mid].waiting # {})
       => \/ Cardinality(session'[upd.mid].in_turn) = TurnSize
          \/ Cardinality(session'[upd.mid].priests) < Quorum]_vars

\* C10: a rotation tick that finds at least 2 enrolled operators outside the
\* previous onDuty puts no member of the previous onDuty on duty.
C10_NoImmediateRepeat ==
    [][\A m \in Mids :
          (turnRun[m] = "idle" /\ turnRun'[m] = "render"
             /\ Cardinality(session[m].priests \ session[m].in_turn) >= TurnSize)
          => session'[m].in_turn \cap session[m].in_turn = {}]_vars

\* a tick has just rotated a roster of at least 4
C10_Witness ==
    \E m \in Mids :
        /\ Running(m) /\ turnRun[m] = "render"
        /\ Cardinality(session[m].priests) >= Quorum + 1
        /\ session[m].in_turn \subseteq session[m].priests
        /\ Cardinality(session[m].in_turn) = TurnSize

\* a tick moves from its lookup to the rendering of a new roster
TickRotates(m) == turnRun[m] = "idle" /\ turnRun'[m] = "render"

\* a session leaves the registry in this step
Removed(m) == m \in SESSIONS /\ m \notin SESSIONS'

\* the handlers that have read or written the session of m and have not
\* yet finished their quorum test and render or teardown
InFlight(m) ==
    (IF upd.kind = "cb" /\ upd.mid = m
          /\ upd.pc \in {"ack", "render_join", "ack2", "final", "render"}
       THEN {"callback"} ELSE {})
    \cup (IF closeRun[m] # "idle" THEN {"close"} ELSE {})
    \cup (IF turnRun[m] # "idle" THEN {"tick"} ELSE {})

\* C11: a rotation tick on a running session with at least three enrolled
\* of whom fewer than two were outside the previous on-duty set falls back
\* to everybody enrolled: the new on-duty set has exactly two members, all
\* of them enrolled (and may hold a member of the previous one).
C11_FallbackTwoOnDuty ==
    [][\A m \in Mids :
          (/\ TickRotates(m)
           /\ Cardinality(session[m].priests \ session[m].in_turn) < TurnSize)
          => /\ Cardinality(session'[m].in_turn) = TurnSize
             /\ session'[m].in_turn \subseteq session'[m].priests
             /\ session'[m].waiting = session'[m].priests \ session'[m].in_turn]_vars

\* a tick has just rotated a roster of exactly three: two of the three are
\* on duty, so one of them was on duty before
C11_Witness ==
    \E m \in Mids :
        /\ Running(m) /\ turnRun[m] = "render"
        /\ Cardinality(session[m].priests) = Quorum
        /\ session[m].in_turn \subseteq session[m].priests
        /\ Cardinality(session[m].in_turn) = TurnSize
        /\ Cardinality(session[m].waiting) = 1

\* C12: whenever a session is removed from the registry (by a leave that
\* loses the quorum, by a rotation tick or by the enrollment timer), no
\* rotation job stays scheduled for its message once the removal is done.
C12_NoTimerAfterRemoval ==
    [][\A m \in Mids : Removed(m) => m \notin turnJobs']_vars

C14_LeaveScenario ==
    [][/\ (/\ upd.kind = "cb" /\ upd.pc = "answer" /\ upd.data = "turn_leave"
           /\ upd'.pc = "ack2"
           /\ Running(upd.mid)
           /\ Cardinality(session[upd.mid].priests) = Quorum
           /\ Cardinality(session[upd.mid].in_turn) = TurnSize
           /\ session[upd.mid].waiting = session[upd.mid].priests \ session[upd.mid].in_turn
           /\ session[upd.mid].in_turn \subseteq session[upd.mid].priests
           /\ upd.user \in session[upd.mid].in_turn)
          => /\ session'[upd.mid].in_turn =
                  (session[upd.mid].in_turn \ {upd.user}) \cup session[upd.mid].waiting
             /\ session'[upd.mid].waiting = {}
             /\ session'[upd.mid].priests = session[upd.mid].priests \ {upd.user}
             /\ Cardinality(session'[upd.mid].priests) = TurnSize
       /\ (/\ upd.kind = "cb" /\ upd.pc = "ack2" /\ UpdateSteps
           /\ upd'.pc # "raised"
           /\ Cardinality(session[upd.mid].priests) = TurnSize)
          => upd'.pc = "final"
       /\ (CbFinal /\ upd.mid \in SESSIONS) => upd.mid \notin SESSIONS']_vars

\* the leave of the scenario has been handled: two enrolled, both on duty,
\* nobody waiting, the final notice under way
C14_Witness ==
    /\ upd.kind = "cb" /\ upd.pc = "final"
    /\ Running(upd.mid)
    /\ Cardinality(session[upd.mid].priests) = TurnSize
    /\ session[upd.mid].in_turn = session[upd.mid].priests
    /\ session[upd.mid].waiting = {}
    /\ closeRun[upd.mid] = "idle" /\ turnRun[upd.mid] = "idle"

\* C15: no two triggers of one session interleave: while one handler is
\* between its first access to the session and the end of its render or
\* teardown, no other handler is at work on the same session.
C15_Serialized == \A m \in Mids : Cardinality(InFlight(m)) <= 1

\* C16: removing a session is idempotent: a teardown that finds the
\* session already removed by another trigger does not raise and goes on
\* with the rest of its teardown (the tick still removes its job).
C16_IdempotentRemoval ==
    [][/\ CbFinal => upd'.pc = "ret_lost"
       /\ \A m \in Mids : TurnFinal(m) => m \notin turnJobs']_vars

\* C17: a button press or a timer that refers to a message without a
\* session changes neither the registry nor any session, creates nothing
\* and returns by the path of the absent session.
C17_AbsentIsNoOp ==
    [][/\ (/\ upd.kind = "cb" /\ upd.pc = "answer" /\ UpdateSteps
           /\ upd.mid \notin SESSIONS)
          => /\ upd'.pc \in {"notfound", "raised"}
             /\ upd'.pc = "raised" => upd'.at = "answer"
             /\ UNCHANGED <<SESSIONS, session, nextId, joinJobs, turnJobs>>
       /\ (upd.kind = "cb" /\ upd.pc = "notfound" /\ UpdateSteps)
          => /\ upd'.pc \in {"ret_absent", "raised"}
             /\ UNCHANGED <<SESSIONS, session, nextId, joinJobs, turnJobs>>
       /\ \A m \in Mids :
            /\ (TimerFires(m) /\ m \notin SESSIONS)
               => /\ closeRun'[m] = "idle"
                  /\ UNCHANGED <<SESSIONS, session, nextId, turnJobs>>
            /\ (TurnFire(m) /\ m \notin SESSIONS)
               => /\ turnRun'[m] = "idle"
                  /\ UNCHANGED <<SESSIONS, session, nextId, joinJobs>>]_vars

\* a press on the buttons of a message whose session is gone has returned
\* while another session is registered
C17_Witness ==
    /\ upd.kind = "cb" /\ upd.pc = "ret_absent"
    /\ upd.mid \notin SESSIONS
    /\ SESSIONS # {}

\* C18: the state change of a transition is complete before any effect
\* that can be seen from outside is attempted: while the final notice of
\* a teardown is being sent, the session is already out of the registry.
C18_StateBeforeEffect ==
    \A m \in Mids :
        (\/ closeRun[m] = "final"
         \/ turnRun[m] = "final"
         \/ (upd.kind = "cb" /\ upd.pc = "final" /\ upd.mid = m))
        => m \notin SESSIONS

\* C19: a failure of the render or of the final notice does not spoil the
\* state: however the sending of the final notice of a teardown ends, the
\* session is out of the registry afterwards.
C19_RemovedDespiteFailure ==
    [][/\ (upd.kind = "cb" /\ upd.pc = "final" /\ UpdateSteps)
          => upd.mid \notin SESSIONS'
       /\ \A m \in Mids :
            /\ (closeRun[m] = "final" /\ closeRun'[m] # "final") => m \notin SESSIONS'
            /\ (turnRun[m] = "final" /\ turnRun'[m] # "final") => m \notin SESSIONS']_vars

\* C20: in every reachable state a session in the enrollment window has
\* nobody on duty, and a running session has min(2, enrolled) on duty.
C20_OnDutySize ==
    \A m \in SESSIONS :
        /\ session[m].phase = "join" => session[m].in_turn = {}
        /\ session[m].phase = "running"
           => Cardinality(session[m].in_turn) =
                IF Cardinality(session[m].priests) < TurnSize
                  THEN Cardinality(session[m].priests) ELSE TurnSize

\* the callback applies a button to the running session it has looked up
Applies(buttons) ==
    /\ upd.kind = "cb" /\ upd.pc = "answer" /\ upd.data \in buttons
    /\ upd'.pc \in {"ack", "ack2"}
    /\ Running(upd.mid)

\* C21: after a leave by operator X has been handled on a running session
\* that keeps its quorum, X is not enrolled, not on duty and not waiting.
C21_LeaverGone ==
    [][(/\ Applies({"sess_leave", "turn_leave"})
        /\ Cardinality(session'[upd.mid].priests) >= Quorum)
       => /\ upd.user \notin session'[upd.mid].priests
          /\ upd.user \notin session'[upd.mid].in_turn
          /\ upd.user \notin session'[upd.mid].waiting]_vars

\* C22: a join by operator X on a running session enrolls X, puts X in
\* waiting exactly when X is not on duty and leaves the on-duty set alone;
\* a join by an operator the join has already been applied to changes
\* nothing.
C22_JoinRunning ==
    [][Applies({"sess_join", "turn_join"})
       => /\ session'[upd.mid].priests = session[upd.mid].priests \cup {upd.user}
          /\ session'[upd.mid].in_turn = session[upd.mid].in_turn
          /\ session'[upd.mid].waiting =
               IF upd.user \in session[upd.mid].in_turn
                 THEN session[upd.mid].waiting
                 ELSE session[upd.mid].waiting \cup {upd.user}
          /\ (/\ upd.user \in session[upd.mid].priests
              /\ upd.user \in session[upd.mid].in_turn \cup session[upd.mid].waiting)
             => session'[upd.mid] = session[upd.mid]]_vars

\* C23: a session does not stay in the enrollment window once its
\* enrollment timer has been handled: when the handler is over, the
\* session is running or out of the registry.
C23_LeavesJoining ==
    [][\A m \in Mids :
          (\/ (closeRun[m] # "idle" /\ closeRun'[m] = "idle")
           \/ (TimerFires(m) /\ closeRun'[m] = "idle"))
          => (m \notin SESSIONS' \/ session'[m].phase = "running")]_vars

\* C24: no session is in the registry in the running phase without a
\* scheduled rotation job, once the handler of the enrollment timer is
\* over (also when its render has failed).
C24_RunningHasTimer ==
    \A m \in Mids :
        (Running(m) /\ closeRun[m] = "idle") => m \in turnJobs

\* C25: no join or leave handled in the enrollment window removes the
\* session, even when nobody is enrolled any more: a session in the
\* enrollment window is removed by the handler of its enrollment timer
\* and by nothing else.
C25_JoiningRemovedByTimerOnly ==
    [][\A m \in Mids :
          (Removed(m) /\ session[m].phase = "join")
          => /\ closeRun[m] = "final" /\ closeRun'[m] = "idle"
             /\ upd' = upd]_vars

\* a leave has been handled in the enrollment window and has left nobody
\* enrolled; the session is still there
C25_Witness ==
    \E m \in Mids :
        /\ Joining(m) /\ session[m].priests = {}
        /\ lastJoin[m] = {}
        /\ upd.kind = "cb" /\ upd.pc = "ret_join" /\ upd.mid = m

\* C26: a rotation tick that finds a running session with fewer than
\* three enrolled removes the session and cancels the repeating job: when
\* its teardown is over, the session is out of the registry and the job is
\* scheduled no more.
C26_TickTeardown ==
    [][\A m \in Mids :
          (turnRun[m] = "final" /\ turnRun'[m] = "idle")
          => (m \notin SESSIONS' /\ m \notin turnJobs')]_vars

\* C27: the phase of a registered session changes only when its
\* enrollment timer is handled, and only from the enrollment window to
\* running; the timer is scheduled when the session is created and never
\* again, it never fires on a running session, and a rotation tick is
\* never handled on a session in the enrollment window.
C27_PhaseChangesOnce ==
    [][\A m \in Mids :
          /\ (m \in SESSIONS /\ m \in SESSIONS' /\ session'[m].phase # session[m].phase)
             => /\ TimerFires(m)
                /\ session[m].phase = "join" /\ session'[m].phase = "running"
          /\ (m \notin joinJobs /\ m \in joinJobs')
             => (m = nextId /\ m \notin SESSIONS /\ m \in SESSIONS' /\ nextId' > nextId)
          /\ TimerFires(m) => ~Running(m)
          /\ TurnFire(m) => ~Joining(m)
          /\ turnRun[m] # "idle" => ~Joining(m)]_vars

\* the enrollment timer of a session has been handled and is scheduled no
\* more; a rotation tick is at work on the running session
C27_Witness ==
    \E m \in Mids :
        /\ Running(m)
        /\ m \notin joinJobs /\ closeRun[m] = "idle"
        /\ m \in turnJobs /\ turnRun[m] # "idle"

C29_TickRebuildsRoster ==
    [][\A m \in Mids :
          TickRotates(m)
          => /\ session'[m].priests = session[m].priests
             /\ session'[m].in_turn \subseteq session'[m].priests
             /\ Cardinality(session'[m].in_turn) = TurnSize
             /\ session'[m].waiting = session'[m].priests \ session'[m].in_turn
             /\ session'[m].phase = "running"
             /\ m \in SESSIONS']_vars

\* a tick has rebuilt the roster while a callback that has written to the
\* enrolled alone is still waiting for its acknowledgement
C29_Witness ==
    \E m \in Mids :
        /\ Running(m) /\ turnRun[m] = "render"
        /\ upd.kind = "cb" /\ upd.pc = "ack" /\ upd.mid = m
        /\ Cardinality(session[m].in_turn) = TurnSize
        /\ session[m].in_turn \subseteq session[m].priests
        /\ session[m].waiting = session[m].priests \ session[m].in_turn

\* C30: a rotation job that fires when its session is gone changes no
\* session and nothing of the registry (a newer session included) and
\* removes itself; no job is scheduled for that message again, so it
\* fires at most once more.
C30_StaleTimer ==
    [][\A m \in Mids :
          /\ (TurnFire(m) /\ m \notin SESSIONS)
             => /\ m \notin turnJobs'
                /\ turnRun' = turnRun
                /\ closeRun[m] = "idle" /\ m \notin joinJobs
                /\ UNCHANGED <<SESSIONS, session, nextId, joinJobs, closeRun, upd>>
          /\ (m \notin turnJobs /\ m \in turnJobs') => closeRun[m] = "render"
          /\ (closeRun[m] = "idle" /\ closeRun'[m] # "idle") => TimerFires(m)
          /\ (m \notin joinJobs /\ m \in joinJobs') => (m = nextId /\ nextId' > nextId)]_vars

\* the job of a removed session has fired and is gone while a newer
\* session is registered and the roster of the old one had been shown
C30_Witness ==
    \E m \in Mids :
        /\ m \notin SESSIONS /\ m \in shown
        /\ m \notin turnJobs /\ m \notin joinJobs
        /\ turnRun[m] = "idle" /\ closeRun[m] = "idle"
        /\ \E n \in SESSIONS : n > m

====
